---- MODULE Spec2Model ----
(***************************************************************************)
(* Model of apiWaveshare.py: the cancellable timed-drive scheduler          *)
(* (drive_for / launch_drive), the thread-safe motor driver (Tank), and the *)
(* lock-protected robotState with its temp-file-then-rename persistence.    *)
(*                                                                          *)
(* Units: a drive value or speed is an integer number of thousandths        *)
(* (0.6 is 600); a duration is a whole number of 50 ms polling intervals.   *)
(* Threads: request handlers 1..NumHandlers (the server's worker threads)   *)
(* and drive tasks 1..MaxTasks (the daemon threads launch_drive starts).    *)
(***************************************************************************)
EXTENDS Integers, Sequences, FiniteSets, TLC

\* ------------------------------------------------------------------ bounds
NumHandlers == 2
MaxReq == 3
MaxTasks == 2
MaxDur == 2
MaxWall == 1
\* requests served in the runs that start from InitLive (at most MaxReq)
LiveReq == 2

Handlers == 1..NumHandlers
Tasks == 1..MaxTasks

VARIABLES
    hpc,        \* handler -> position in its request
    hreq,       \* handler -> the request it is serving (locals of the handler)
    hid,        \* handler -> command_id loaded by robotState["command_id"] += 1
    hsnap,      \* handler -> its local snap (NoSnap when none)
    cancel,     \* _drive_cancel (the Event's flag)
    driveLock,  \* _drive_lock: 0 free, else the handler holding it
    motorLock,  \* MOTOR._lock: 0 free, h > 0 a handler, -t a drive task
    stateLock,  \* stateLock: 0 free, else the handler holding it
    motor,      \* the two motor sides as last commanded over PWM
    tpc,        \* drive task -> position in drive_for
    targ,       \* drive task -> <<left, right>> it was started with
    trem,       \* drive task -> polling intervals left before its deadline
    ntasks,     \* number of drive threads started so far
    robotState, \* the in-memory state dict
    tmpFile,    \* robotState.json.tmp
    diskFile,   \* robotState.json (STATE_PATH)
    wall,       \* wall clock, int(time.time())
    crashed,    \* the process was killed
    nCalls,     \* history: number of requests issued
    nDrive,     \* history: number of them that called launch_drive
    seqLaunch,  \* history: no launch_drive was called during another one
    stopState,  \* history: "none", the handler whose stop() armed, or "stopped"
    preempted,  \* history: tasks that were polling when a launch_drive began
    halted,     \* history: tasks that were running when a stop() armed
    retIds,     \* history: command_id of each mutator's snap, in stateLock order
    lastCommit, \* history: the state after the latest whole mutation
    durable,    \* history: the snapshot of the latest completed persist
    nDone       \* history: number of mutating calls that have returned

vars == <<hpc, hreq, hid, hsnap, cancel, driveLock, motorLock, stateLock, motor,
          tpc, targ, trem, ntasks, robotState, tmpFile, diskFile, wall, crashed,
          nCalls, nDrive, seqLaunch, stopState, preempted, halted, retIds,
          lastCommit,
          durable,
          nDone>>

hvars == <<hpc, hreq, hid, hsnap>>
tvars == <<tpc, targ, trem, ntasks>>
lockvars == <<driveLock, motorLock, stateLock>>
filevars == <<tmpFile, diskFile>>
statevars == <<robotState, wall, retIds, lastCommit, durable, nDone>>
histvars == <<nCalls, nDrive, seqLaunch, stopState, preempted, halted>>

\* ------------------------------------------------------------- pure parts
Abs(x) == IF x < 0 THEN -x ELSE x
Max(a, b) == IF a > b THEN a ELSE b
Min(a, b) == IF a < b THEN a ELSE b

LowerKeepsCase(s) == s

\* str.lower() on the command strings the model's requests carry
Lower(s) ==
    CASE s = "FORWARD" -> "forward"
      [] s = "Forward" -> "forward"
      [] s = "START" -> "start"
      [] s = "Move" -> "move"
      [] s = "BACK" -> "back"
      [] s = "Backward" -> "backward"
      [] s = "LEFT" -> "left"
      [] s = "Right" -> "right"
      [] s = "STOP" -> "stop"
      [] s = "SPIN" -> "spin"
      [] OTHER -> s

\* cmd_to_tank(cmd, sp): (cmd or "").lower() against the table
cmd_to_tank(cmd, sp) ==
    LET c == Lower(cmd) IN
    IF c \in {"forward", "start", "move"} THEN <<sp, sp>>
    ELSE IF c \in {"back", "backward"} THEN <<-sp, -sp>>
    ELSE IF c = "left" THEN <<-sp, sp>>
    ELSE IF c = "right" THEN <<sp, -sp>>
    ELSE <<0, 0>>

\* update_controls, lines 183-192: the clamped speed and the resolved command
ClampSpeed(speed) == Max(0, Min(1000, speed))

ResolveCmd(data) ==
    IF data.command # "" THEN data.command
    ELSE IF data.up THEN "forward"
    ELSE IF data.down THEN "back"
    ELSE IF data.left THEN "left"
    ELSE IF data.right THEN "right"
    ELSE "stop"

\* ControlData: the validated request bodies the model draws from
ControlData(cmd, u, d, l, r, sp, dur) ==
    [command |-> cmd, up |-> u, down |-> d, left |-> l, right |-> r,
     speed |-> sp, duration |-> dur]

Inputs ==
    {ControlData("forward", FALSE, FALSE, FALSE, FALSE, 600, 1),
     ControlData("", FALSE, FALSE, TRUE, FALSE, 600, MaxDur),
     ControlData("", FALSE, FALSE, FALSE, FALSE, 600, 1)}

\* request bodies for the command interpretation alone: every spelling below
\* with every combination of the four flags, at three valid speeds
Commands ==
    {"", "forward", "FORWARD", "Forward", "start", "START", "move", "Move",
     "back", "BACK", "backward", "Backward", "left", "LEFT", "right", "Right",
     "stop", "STOP", "spin", "SPIN"}
Speeds == {0, 600, 1000}
InterpInputs ==
    {ControlData(c, u, d, l, r, sp, 1) :
        c \in Commands, u \in BOOLEAN, d \in BOOLEAN, l \in BOOLEAN,
        r \in BOOLEAN, sp \in Speeds}

\* request bodies as update_controls takes them when it is called past the
\* validation of ControlData: a duration of zero with a forward command, next
\* to a valid drive and a valid halt
RawInputs ==
    {ControlData("forward", FALSE, FALSE, FALSE, FALSE, 600, 0),
     ControlData("forward", FALSE, FALSE, FALSE, FALSE, 600, 1),
     ControlData("", FALSE, FALSE, FALSE, FALSE, 600, 1)}

\* valid request bodies whose command is an alias in upper case, an alias, or
\* a word the table does not know
AliasInputs ==
    {ControlData("START", FALSE, FALSE, FALSE, FALSE, 600, 1),
     ControlData("backward", FALSE, FALSE, FALSE, FALSE, 600, 1),
     ControlData("spin", FALSE, FALSE, FALSE, FALSE, 600, 1)}

NoData == ControlData("", FALSE, FALSE, FALSE, FALSE, 0, 0)
NoReq == [kind |-> "none", data |-> NoData, cmd |-> "", vec |-> <<0, 0>>]

\* ------------------------------------------------------------ motor driver
\* _set_dutycycle / MotorRun: percent clamped to 0..100
ClampDuty(p) == Max(0, Min(100, p))

\* the magnitudes on the grid of thousandths whose product abs(val) * 100 in
\* double arithmetic falls just below the whole number it equals exactly
\* (0.29 * 100 is 28.999999999999996)
FloatShort == {290, 570, 580}

\* int(abs(val) * 100) of line 69, for a magnitude a in thousandths
IntPercent(a) == (a * 100) \div 1000 - (IF a \in FloatShort THEN 1 ELSE 0)

\* _tank_unlocked.side(motor, val) on one side's PWM state
SideCmd(old, val) ==
    IF Abs(val) < 1
    THEN [old EXCEPT !.duty = 0]
    ELSE [duty |-> ClampDuty(IntPercent(Abs(val))),
          dir |-> IF val > 0 THEN "forward" ELSE "backward"]

MotorInit == [left |-> [duty |-> 0, dir |-> "none"],
              right |-> [duty |-> 0, dir |-> "none"]]

NoMotorLock == TRUE

\* with self._lock: of Tank (line 61)
MotorLockFree == motorLock = 0

\* MOTOR.Tank, first half: take MOTOR._lock and command the left side
TankLeft(who, vec) ==
    /\ MotorLockFree
    /\ motorLock' = who
    /\ motor' = [motor EXCEPT !.left = SideCmd(motor.left, vec[1])]

\* MOTOR.Tank, second half: command the right side and release MOTOR._lock
TankRight(who, vec) ==
    /\ motorLock = who
    /\ motorLock' = 0
    /\ motor' = [motor EXCEPT !.right = SideCmd(motor.right, vec[2])]

Stopped == motor.left.duty = 0 /\ motor.right.duty = 0

\* the motors are as Tank(vec) leaves them: commanding vec again changes nothing
Shows(vec) ==
    /\ motor.left = SideCmd(motor.left, vec[1])
    /\ motor.right = SideCmd(motor.right, vec[2])

\* ------------------------------------------------------------ state store
StateInit ==
    [up |-> FALSE, down |-> FALSE, left |-> FALSE, right |-> FALSE,
     command |-> "stop", command_id |-> 0, timestamp |-> 0,
     speed |-> 600, duration |-> 16]

NoSnap == [StateInit EXCEPT !.command = "<none>", !.command_id = -1]
Absent == [StateInit EXCEPT !.command = "<absent>", !.command_id = -1]
Partial == [StateInit EXCEPT !.command = "<partial>", !.command_id = -1]

\* the fields a request writes with robotState.update(...)
UpdateFields(s, req) ==
    IF req.kind = "stop"
    THEN [s EXCEPT !.command = "stop"]
    ELSE [s EXCEPT !.up = req.data.up, !.down = req.data.down,
                   !.left = req.data.left, !.right = req.data.right,
                   !.command = req.cmd,
                   !.speed = ClampSpeed(req.data.speed),
                   !.duration = req.data.duration]

NextIdWraps(id) == (id + 1) % 2

\* robotState["command_id"] += 1 (stop 174, update_controls 207)
NextId(id) == id + 1

NoStateLock == TRUE

\* with stateLock: of the mutators (stop 172, update_controls 202)
StateLockFree == stateLock = 0

StatusReadsUnlocked == TRUE

\* with stateLock: of status (line 164)
StatusMayRead == stateLock = 0

WriteTextOpenInPlace(f) == [f EXCEPT !.disk = Partial]

\* write_state_to_disk lines 143-144: write_text opens robotState.json.tmp for
\* writing, which leaves it empty until the data is written
WriteTextOpen(f) == [f EXCEPT !.tmp = Partial]

\* ------------------------------------------------------------------- Init
InitWith(served) ==
    /\ hpc = [h \in Handlers |-> "idle"]
    /\ hreq = [h \in Handlers |-> NoReq]
    /\ hid = [h \in Handlers |-> 0]
    /\ hsnap = [h \in Handlers |-> NoSnap]
    /\ cancel = FALSE
    /\ driveLock = 0
    /\ motorLock = 0
    /\ stateLock = 0
    /\ motor = MotorInit
    /\ tpc = [t \in Tasks |-> "unborn"]
    /\ targ = [t \in Tasks |-> <<0, 0>>]
    /\ trem = [t \in Tasks |-> 0]
    /\ ntasks = 0
    /\ robotState = StateInit
    /\ tmpFile = Absent
    /\ diskFile = Absent
    /\ wall = 0
    /\ crashed = FALSE
    /\ nCalls = served
    /\ nDrive = 0
    /\ seqLaunch = TRUE
    /\ stopState = "none"
    /\ preempted = {}
    /\ halted = {}
    /\ retIds = <<>>
    /\ lastCommit = StateInit
    /\ durable = Absent
    /\ nDone = 0

Init == InitWith(0)

\* the same first state, with room for LiveReq requests only
InitLive == InitWith(MaxReq - LiveReq)

\* ---------------------------------------------------------- request handlers
Alive == ~crashed
\* the server takes requests until its shutdown begins
Serving == \A g \in Handlers : hreq[g].kind # "shutdown"
MayIssue(h) == Alive /\ Serving /\ hpc[h] = "idle" /\ nCalls < MaxReq

\* the request as update_controls sees it after lines 183-194
SetReq(data) ==
    [kind |-> "set", data |-> data, cmd |-> ResolveCmd(data),
     vec |-> cmd_to_tank(ResolveCmd(data), ClampSpeed(data.speed))]

StopReq == [kind |-> "stop", data |-> NoData, cmd |-> "stop", vec |-> <<0, 0>>]

\* update_controls line 196: the request starts a timed drive
IsDrive(req) == (req.vec[1] # 0 \/ req.vec[2] # 0) /\ req.data.duration > 0

\* update_controls up to its first shared write: _drive_cancel.set(), which is
\* line 98 of launch_drive on the drive branch and line 199 on the other
UpdateControls(h, data) ==
    /\ MayIssue(h)
    /\ IsDrive(SetReq(data)) => nDrive < MaxTasks
    /\ hreq' = [hreq EXCEPT ![h] = SetReq(data)]
    /\ cancel' = TRUE
    /\ nCalls' = nCalls + 1
    /\ IF IsDrive(SetReq(data))
       THEN /\ hpc' = [hpc EXCEPT ![h] = "ld_lock"]
            /\ nDrive' = nDrive + 1
            /\ seqLaunch' = (seqLaunch /\ ntasks = nDrive)
            /\ stopState' = "none"
            /\ preempted' = preempted \cup {t \in Tasks : tpc[t] = "poll"}
            /\ halted' = {}
       ELSE /\ hpc' = [hpc EXCEPT ![h] = "tank1"]
            /\ UNCHANGED <<nDrive, seqLaunch, stopState, preempted, halted>>
    /\ UNCHANGED <<hid, hsnap, lockvars, motor, tvars, filevars, statevars, crashed>>

DriveLockFree == driveLock = 0

\* launch_drive lines 99-100: with _drive_lock: _drive_cancel.clear()
LaunchLock(h) ==
    /\ Alive /\ hpc[h] = "ld_lock"
    /\ DriveLockFree
    /\ driveLock' = h
    /\ cancel' = FALSE
    /\ hpc' = [hpc EXCEPT ![h] = "ld_start"]
    /\ UNCHANGED <<hreq, hid, hsnap, motorLock, stateLock, motor, tvars,
                   filevars, statevars, crashed, histvars>>

DriveLockKept == driveLock

\* _drive_lock as the end of launch_drive's with block leaves it (line 103)
DriveLockReleased == 0

\* launch_drive lines 101-103: start the drive thread, leave the with block
LaunchStart(h) ==
    /\ Alive /\ hpc[h] = "ld_start"
    /\ ntasks' = ntasks + 1
    /\ tpc' = [tpc EXCEPT ![ntasks + 1] = "tank1"]
    /\ targ' = [targ EXCEPT ![ntasks + 1] = hreq[h].vec]
    /\ trem' = [trem EXCEPT ![ntasks + 1] = hreq[h].data.duration]
    /\ driveLock' = DriveLockReleased
    /\ hpc' = [hpc EXCEPT ![h] = "cs_enter"]
    /\ UNCHANGED <<hreq, hid, hsnap, cancel, motorLock, stateLock, motor,
                   filevars, statevars, crashed, histvars>>

\* stop line 170: _drive_cancel.set().  stopState records the stop until the
\* next request that calls launch_drive: the handler that armed, and "stopped"
\* once that handler's Tank(0, 0) has returned
StopSet(h) ==
    /\ MayIssue(h)
    /\ hreq' = [hreq EXCEPT ![h] = StopReq]
    /\ cancel' = TRUE
    /\ hpc' = [hpc EXCEPT ![h] = "tank1"]
    /\ nCalls' = nCalls + 1
    /\ stopState' = IF stopState = "stopped" THEN "stopped" ELSE ToString(h)
    /\ halted' = halted \cup {t \in Tasks : tpc[t] \in {"tank1", "tank2", "poll"}}
    /\ UNCHANGED <<hid, hsnap, lockvars, motor, tvars, filevars, statevars,
                   crashed, nDrive, seqLaunch, preempted>>

\* stop line 171 / update_controls line 200: MOTOR.Tank(L, R), left side
HandlerTankLeft(h) ==
    /\ Alive /\ hpc[h] = "tank1"
    /\ TankLeft(h, hreq[h].vec)
    /\ hpc' = [hpc EXCEPT ![h] = "tank2"]
    /\ UNCHANGED <<hreq, hid, hsnap, cancel, driveLock, stateLock, tvars,
                   filevars, statevars, crashed, histvars>>

\* ... right side, and Tank returns
HandlerTankRight(h) ==
    /\ Alive /\ hpc[h] = "tank2"
    /\ TankRight(h, hreq[h].vec)
    /\ hpc' = [hpc EXCEPT ![h] = "cs_enter"]
    /\ stopState' = IF hreq[h].kind = "stop" /\ stopState = ToString(h)
                    THEN "stopped" ELSE stopState
    /\ UNCHANGED <<hreq, hid, hsnap, cancel, driveLock, stateLock, tvars,
                   filevars, statevars, crashed, nCalls, nDrive, seqLaunch,
                   preempted, halted>>

\* with stateLock: robotState.update({...}), and the load half of
\* robotState["command_id"] += 1 (stop 172-174, update_controls 202-207)
CsEnter(h) ==
    /\ Alive /\ hpc[h] = "cs_enter"
    /\ StateLockFree
    /\ stateLock' = h
    /\ robotState' = UpdateFields(robotState, hreq[h])
    /\ hid' = [hid EXCEPT ![h] = robotState.command_id]
    /\ hpc' = [hpc EXCEPT ![h] = "cs_store"]
    /\ UNCHANGED <<hreq, hsnap, cancel, driveLock, motorLock, motor, tvars,
                   filevars, wall, retIds, lastCommit, durable, nDone, crashed,
                   histvars>>

\* the store half of += 1, the timestamp, and snap = dict(robotState)
\* (stop 174-176, update_controls 207-209); write_state_to_disk then opens
\* the temporary file, which truncates it (line 144)
CsStore(h) ==
    /\ Alive /\ hpc[h] = "cs_store"
    /\ \E now \in wall..MaxWall :
         /\ wall' = now
         /\ robotState' = [robotState EXCEPT !.command_id = NextId(hid[h]),
                                             !.timestamp = now]
         /\ lastCommit' = [UpdateFields(lastCommit, hreq[h]) EXCEPT
                              !.command_id = lastCommit.command_id + 1,
                              !.timestamp = now]
    /\ hsnap' = [hsnap EXCEPT ![h] = robotState']
    /\ retIds' = Append(retIds, robotState'.command_id)
    /\ LET f == WriteTextOpen([tmp |-> tmpFile, disk |-> diskFile]) IN
         tmpFile' = f.tmp /\ diskFile' = f.disk
    /\ hpc' = [hpc EXCEPT ![h] = "w_write"]
    /\ UNCHANGED <<hreq, hid, cancel, lockvars, motor, tvars, durable, nDone,
                   crashed, histvars>>

\* write_state_to_disk line 144: tmp.write_text writes json.dumps(state) out
WriteData(h) ==
    /\ Alive /\ hpc[h] = "w_write"
    /\ tmpFile' = robotState
    /\ hpc' = [hpc EXCEPT ![h] = "w_replace"]
    /\ UNCHANGED <<hreq, hid, hsnap, cancel, lockvars, motor, tvars, diskFile,
                   statevars, crashed, histvars>>

ReplaceSkipped == diskFile

\* what STATE_PATH holds after tmp.replace(STATE_PATH) (line 145)
Replaced == tmpFile

\* write_state_to_disk line 145, tmp.replace(STATE_PATH); then the with block
\* ends and the handler returns snap (stop 178, update_controls 212)
WriteReplace(h) ==
    /\ Alive /\ hpc[h] = "w_replace"
    /\ diskFile' = Replaced
    /\ tmpFile' = Absent
    /\ durable' = lastCommit
    /\ stateLock' = IF stateLock = h THEN 0 ELSE stateLock
    /\ nDone' = nDone + 1
    /\ hpc' = [hpc EXCEPT ![h] = "idle"]
    /\ hreq' = [hreq EXCEPT ![h] = NoReq]
    /\ hid' = [hid EXCEPT ![h] = 0]
    /\ hsnap' = [hsnap EXCEPT ![h] = NoSnap]
    /\ UNCHANGED <<cancel, driveLock, motorLock, motor, tvars, robotState, wall,
                   retIds, lastCommit, crashed, histvars>>

\* status lines 164-165: with stateLock: return dict(robotState)
Status(h) ==
    /\ MayIssue(h)
    /\ StatusMayRead
    /\ hsnap' = [hsnap EXCEPT ![h] = robotState]
    /\ hpc' = [hpc EXCEPT ![h] = "st_ret"]
    /\ nCalls' = nCalls + 1
    /\ UNCHANGED <<hreq, hid, cancel, lockvars, motor, tvars, filevars,
                   statevars, crashed, nDrive, seqLaunch, stopState, preempted,
                   halted>>

\* the snapshot is handed to the caller
StatusReturn(h) ==
    /\ Alive /\ hpc[h] = "st_ret"
    /\ hsnap' = [hsnap EXCEPT ![h] = NoSnap]
    /\ hpc' = [hpc EXCEPT ![h] = "idle"]
    /\ UNCHANGED <<hreq, hid, cancel, lockvars, motor, tvars, filevars,
                   statevars, crashed, histvars>>

\* ------------------------------------------------------------- drive tasks
\* drive_for line 86: MOTOR.Tank(left, right), left side
TaskTankLeft(t) ==
    /\ Alive /\ tpc[t] = "tank1"
    /\ TankLeft(-t, targ[t])
    /\ tpc' = [tpc EXCEPT ![t] = "tank2"]
    /\ UNCHANGED <<hvars, cancel, driveLock, stateLock, targ, trem, ntasks,
                   filevars, statevars, crashed, histvars>>

\* ... right side; line 88 fixes the deadline (trem intervals from now)
TaskTankRight(t) ==
    /\ Alive /\ tpc[t] = "tank2"
    /\ TankRight(-t, targ[t])
    /\ tpc' = [tpc EXCEPT ![t] = "poll"]
    /\ UNCHANGED <<hvars, cancel, driveLock, stateLock, targ, trem, ntasks,
                   filevars, statevars, crashed, histvars>>

\* what _drive_cancel.is_set() returns to the polling task
CancelSeen == cancel

\* drive_for lines 89-91: the deadline has passed, or the flag is set: leave
TaskPollExit(t) ==
    /\ Alive /\ tpc[t] = "poll"
    /\ trem[t] = 0 \/ CancelSeen
    /\ tpc' = [tpc EXCEPT ![t] = "stop1"]
    /\ preempted' = preempted \ {t}
    /\ halted' = halted \ {t}
    /\ UNCHANGED <<hvars, cancel, lockvars, motor, targ, trem, ntasks,
                   filevars, statevars, crashed, nCalls, nDrive, seqLaunch,
                   stopState>>

\* drive_for lines 89-92: before the deadline, flag clear: time.sleep(0.05),
\* which lasts at least one interval
TaskPollSleep(t) ==
    /\ Alive /\ tpc[t] = "poll"
    /\ trem[t] > 0 /\ ~CancelSeen
    /\ \E k \in 1..trem[t] : trem' = [trem EXCEPT ![t] = trem[t] - k]
    /\ preempted' = preempted \ {t}
    /\ UNCHANGED <<hvars, cancel, lockvars, motor, tpc, targ, ntasks,
                   filevars, statevars, crashed, nCalls, nDrive, seqLaunch,
                   stopState, halted>>

StopVecKeepsDriving(t) == targ[t]

\* the vector of drive_for's last command
StopVec(t) == <<0, 0>>

\* drive_for line 93: MOTOR.Tank(0.0, 0.0), left side
TaskStopLeft(t) ==
    /\ Alive /\ tpc[t] = "stop1"
    /\ TankLeft(-t, StopVec(t))
    /\ tpc' = [tpc EXCEPT ![t] = "stop2"]
    /\ UNCHANGED <<hvars, cancel, driveLock, stateLock, targ, trem, ntasks,
                   filevars, statevars, crashed, histvars>>

\* ... right side, and the thread ends
TaskStopRight(t) ==
    /\ Alive /\ tpc[t] = "stop2"
    /\ TankRight(-t, StopVec(t))
    /\ tpc' = [tpc EXCEPT ![t] = "done"]
    /\ UNCHANGED <<hvars, cancel, driveLock, stateLock, targ, trem, ntasks,
                   filevars, statevars, crashed, histvars>>

\* drive_for line 86 when the PWM write of a side raises (an I2C error out
\* of pwm.setDutycycle / pwm.setLevel): before the left side is commanded, or
\* after it and before the right side.  Tank's with block releases
\* MOTOR._lock; drive_for has no try/finally, so the exception ends the thread
TaskTankFault(t) ==
    /\ Alive /\ tpc[t] \in {"tank1", "tank2"}
    /\ tpc[t] = "tank1" => MotorLockFree
    /\ motorLock' = IF motorLock = -t THEN 0 ELSE motorLock
    /\ tpc' = [tpc EXCEPT ![t] = "died"]
    /\ halted' = halted \ {t}
    /\ UNCHANGED <<hvars, cancel, driveLock, stateLock, motor, targ, trem,
                   ntasks, filevars, statevars, crashed, nCalls, nDrive,
                   seqLaunch, stopState, preempted>>

\* the process is killed (any time); the files stay as they are
Crash ==
    /\ Alive
    /\ crashed' = TRUE
    /\ UNCHANGED <<hvars, cancel, lockvars, motor, tvars, filevars, statevars,
                   histvars>>

\* write_state_to_disk raises (OSError from write_text, line 144, or from
\* replace, line 145).  Nothing catches it: the with block of the handler
\* releases stateLock, the files stay as they are, and the exception leaves
\* the handler before its return statement (stop 178, update_controls 212)
WriteFail(h) ==
    /\ Alive /\ hpc[h] \in {"w_write", "w_replace"}
    /\ stateLock' = IF stateLock = h THEN 0 ELSE stateLock
    /\ hpc' = [hpc EXCEPT ![h] = "raised"]
    /\ hsnap' = [hsnap EXCEPT ![h] = NoSnap]
    /\ UNCHANGED <<hreq, hid, cancel, driveLock, motorLock, motor, tvars,
                   filevars, statevars, crashed, histvars>>

\* the exception reaches the framework, which answers the request with an
\* error instead of the handler's return value
RaisedReturn(h) ==
    /\ Alive /\ hpc[h] = "raised"
    /\ hpc' = [hpc EXCEPT ![h] = "idle"]
    /\ hreq' = [hreq EXCEPT ![h] = NoReq]
    /\ hid' = [hid EXCEPT ![h] = 0]
    /\ UNCHANGED <<hsnap, cancel, lockvars, motor, tvars, filevars, statevars,
                   crashed, histvars>>

\* update_controls lines 183-194 on their own: from the request body to the
\* resolved command and the (L, R) pair
Interpret(h) ==
    /\ hpc[h] = "interp"
    /\ hreq' = [hreq EXCEPT ![h] = SetReq(hreq[h].data)]
    /\ hpc' = [hpc EXCEPT ![h] = "interpreted"]
    /\ UNCHANGED <<hid, hsnap, cancel, lockvars, motor, tvars, filevars,
                   statevars, crashed, histvars>>

ShutdownReq == [kind |-> "shutdown", data |-> NoData, cmd |-> "stop", vec |-> <<0, 0>>]

\* lifespan line 111: the server has stopped serving (no request is in
\* progress), and its shutdown code begins with _drive_cancel.set().  Drive
\* threads are still running.  Thread h stands for the server's main thread
ShutdownSet(h) ==
    /\ Alive /\ Serving
    /\ \A g \in Handlers : hpc[g] = "idle"
    /\ hreq' = [hreq EXCEPT ![h] = ShutdownReq]
    /\ cancel' = TRUE
    /\ hpc' = [hpc EXCEPT ![h] = "sd_tank1"]
    /\ UNCHANGED <<hid, hsnap, lockvars, motor, tvars, filevars, statevars,
                   crashed, histvars>>

\* lifespan line 112: MOTOR.Tank(0.0, 0.0), left side
ShutdownTankLeft(h) ==
    /\ Alive /\ hpc[h] = "sd_tank1"
    /\ TankLeft(h, hreq[h].vec)
    /\ hpc' = [hpc EXCEPT ![h] = "sd_tank2"]
    /\ UNCHANGED <<hreq, hid, hsnap, cancel, driveLock, stateLock, tvars,
                   filevars, statevars, crashed, histvars>>

\* ... right side; lifespan returns and the process exits, which ends the
\* daemon drive threads where they are
ShutdownTankRight(h) ==
    /\ Alive /\ hpc[h] = "sd_tank2"
    /\ TankRight(h, hreq[h].vec)
    /\ hpc' = [hpc EXCEPT ![h] = "off"]
    /\ crashed' = TRUE
    /\ UNCHANGED <<hreq, hid, hsnap, cancel, driveLock, stateLock, tvars,
                   filevars, statevars, histvars>>

\* ------------------------------------------------------------ specifications
HandlerStep(h) ==
    \/ LaunchLock(h) \/ LaunchStart(h)
    \/ HandlerTankLeft(h) \/ HandlerTankRight(h)
    \/ CsEnter(h) \/ CsStore(h)
    \/ WriteData(h) \/ WriteReplace(h)
    \/ StatusReturn(h)

TaskStep(t) ==
    \/ TaskTankLeft(t) \/ TaskTankRight(t)
    \/ TaskPollExit(t) \/ TaskPollSleep(t)
    \/ TaskStopLeft(t) \/ TaskStopRight(t)

Issue(h) ==
    \/ \E data \in Inputs : UpdateControls(h, data)
    \/ StopSet(h)
    \/ Status(h)

Next ==
    \/ \E h \in Handlers : Issue(h)
    \/ \E h \in Handlers : HandlerStep(h)
    \/ \E t \in Tasks : TaskStep(t)

Spec == Init /\ [][Next]_vars

\* the same program, which may also be killed at any point
NextCrash == Next \/ Crash
SpecCrash == Init /\ [][NextCrash]_vars

\* threads that can run are scheduled: every started drive thread and every
\* handler inside a request keeps taking steps (the arrival of requests and
\* the kill are left to the environment)
Fairness ==
    /\ \A t \in Tasks : WF_vars(TaskStep(t))
    /\ \A h \in Handlers : WF_vars(HandlerStep(h))
FairSpec == InitLive /\ [][Next]_vars /\ Fairness

\* the same program on a disk whose writes can fail
NextFail ==
    \/ Next
    \/ \E h \in Handlers : WriteFail(h)
    \/ \E h \in Handlers : RaisedReturn(h)
SpecFail == InitLive /\ [][NextFail]_vars

\* the command interpretation as a function: handler 1 holds any request body
\* of InterpInputs and interprets it
InitInterp ==
    /\ \E data \in InterpInputs :
         hreq = [h \in Handlers |->
                   IF h = 1 THEN [NoReq EXCEPT !.kind = "body", !.data = data]
                   ELSE NoReq]
    /\ hpc = [h \in Handlers |-> IF h = 1 THEN "interp" ELSE "idle"]
    /\ hid = [h \in Handlers |-> 0]
    /\ hsnap = [h \in Handlers |-> NoSnap]
    /\ cancel = FALSE
    /\ driveLock = 0 /\ motorLock = 0 /\ stateLock = 0
    /\ motor = MotorInit
    /\ tpc = [t \in Tasks |-> "unborn"]
    /\ targ = [t \in Tasks |-> <<0, 0>>]
    /\ trem = [t \in Tasks |-> 0]
    /\ ntasks = 0
    /\ robotState = StateInit
    /\ tmpFile = Absent /\ diskFile = Absent
    /\ wall = 0
    /\ crashed = FALSE
    /\ nCalls = 0 /\ nDrive = 0
    /\ seqLaunch = TRUE
    /\ stopState = "none"
    /\ preempted = {} /\ halted = {}
    /\ retIds = <<>>
    /\ lastCommit = StateInit
    /\ durable = Absent
    /\ nDone = 0
NextInterp == \E h \in Handlers : Interpret(h)
SpecInterp == InitInterp /\ [][NextInterp]_vars

\* the same program with the server's shutdown
Shutdown(h) == ShutdownSet(h) \/ ShutdownTankLeft(h) \/ ShutdownTankRight(h)
NextShutdown == Next \/ \E h \in Handlers : Shutdown(h)
SpecShutdown == InitLive /\ [][NextShutdown]_vars

\* scheduling that promises nothing about a drive task's polling loop: every
\* handler inside a request keeps taking steps, and a drive thread inside a
\* Tank call finishes that call
TaskTankStep(t) ==
    \/ TaskTankLeft(t) \/ TaskTankRight(t)
    \/ TaskStopLeft(t) \/ TaskStopRight(t)
CallFairness ==
    /\ \A h \in Handlers : WF_vars(HandlerStep(h))
    /\ \A t \in Tasks : WF_vars(TaskTankStep(t))
SpecCalls == InitLive /\ [][Next]_vars /\ CallFairness

\* the same program on hardware whose PWM writes can fail under a drive task
NextFault == Next \/ \E t \in Tasks : TaskTankFault(t)
SpecFault == InitLive /\ [][NextFault]_vars

\* the same program with update_controls called on unvalidated bodies
IssueRaw(h) ==
    \/ \E data \in RawInputs : UpdateControls(h, data)
    \/ StopSet(h)
    \/ Status(h)
NextRaw ==
    \/ \E h \in Handlers : IssueRaw(h)
    \/ \E h \in Handlers : HandlerStep(h)
    \/ \E t \in Tasks : TaskStep(t)
SpecRaw == InitLive /\ [][NextRaw]_vars

\* the same program serving requests whose command is an alias or unknown
IssueAlias(h) ==
    \/ \E data \in AliasInputs : UpdateControls(h, data)
    \/ StopSet(h)
    \/ Status(h)
NextAlias ==
    \/ \E h \in Handlers : IssueAlias(h)
    \/ \E h \in Handlers : HandlerStep(h)
    \/ \E t \in Tasks : TaskStep(t)
SpecAlias == InitLive /\ [][NextAlias]_vars

\* Tank as a function of its vector: a thread calls Tank(v, -v) for any v on
\* the grid of thousandths in [-1, 1], on motors that have not been commanded
InitDuty ==
    /\ \E v \in -1000..1000 :
         targ = [t \in Tasks |-> IF t = 1 THEN <<v, -v>> ELSE <<0, 0>>]
    /\ tpc = [t \in Tasks |-> IF t = 1 THEN "tank1" ELSE "unborn"]
    /\ trem = [t \in Tasks |-> IF t = 1 THEN 1 ELSE 0]
    /\ ntasks = 1
    /\ hpc = [h \in Handlers |-> "idle"]
    /\ hreq = [h \in Handlers |-> NoReq]
    /\ hid = [h \in Handlers |-> 0]
    /\ hsnap = [h \in Handlers |-> NoSnap]
    /\ cancel = FALSE
    /\ driveLock = 0 /\ motorLock = 0 /\ stateLock = 0
    /\ motor = MotorInit
    /\ robotState = StateInit
    /\ tmpFile = Absent /\ diskFile = Absent
    /\ wall = 0
    /\ crashed = FALSE
    /\ nCalls = 0 /\ nDrive = 0
    /\ seqLaunch = TRUE
    /\ stopState = "none"
    /\ preempted = {} /\ halted = {}
    /\ retIds = <<>>
    /\ lastCommit = StateInit
    /\ durable = Absent
    /\ nDone = 0
NextDuty == \E t \in Tasks : TaskTankLeft(t) \/ TaskTankRight(t)
SpecDuty == InitDuty /\ [][NextDuty]_vars

\* =================================================================== claims
\* a drive task is actively driving: its first Tank has returned, it is in its
\* polling loop, and its next poll will not end it
Active(t) == tpc[t] = "poll" /\ trem[t] > 0 /\ ~cancel

\* the step is drive task t polling and going back to sleep
SleepsAgain(t) == tpc[t] = "poll" /\ tpc'[t] = "poll" /\ trem'[t] < trem[t]

\* C1: at most one drive_for task is between its first Tank(left, right) and
\* its final Tank(0, 0) in any reachable state.
C1_AtMostOneActiveDrive == Cardinality({t \in Tasks : Active(t)}) <= 1

\* C2: a task that was in its polling loop when launch_drive was called
\* observes the cancellation at its next poll: it does not sleep again.
C2_PreemptedAtNextPoll ==
    [][\A t \in Tasks : t \in preempted => ~SleepsAgain(t)]_vars

\* C3: every drive_for task that starts ends, and the step that ends it leaves
\* both motor sides stopped: its last command is Tank(0, 0).
C3_UnconditionalStop ==
    /\ [][\A t \in Tasks : (tpc[t] # "done" /\ tpc'[t] = "done") => Stopped']_vars
    /\ \A t \in Tasks : (tpc[t] # "unborn") ~> (tpc[t] = "done")

\* C3 witness: a task has ended on the cancellation path (before its deadline)
\* and another on the deadline path.
C3_Witness ==
    \E t, u \in Tasks : /\ tpc[t] = "done" /\ trem[t] > 0
                        /\ tpc[u] = "done" /\ trem[u] = 0

\* C4: launch(A), then after it returned launch(B), and nothing else: from the
\* second task's Tank(B) until its own Tank(0, 0) the motors stay at vector B.
C4_SecondTaskAlone ==
    (nCalls = 2 /\ nDrive = 2 /\ seqLaunch /\ tpc[2] = "poll") => Shows(targ[2])

\* C5: after stop() has armed _drive_cancel while a drive task was running,
\* with no launch issued afterwards, that task exits at its next poll (it does
\* not sleep again).
C5_StopEndsEveryDrive ==
    [][\A t \in Tasks : t \in halted => ~SleepsAgain(t)]_vars

\* C6: once stop() has armed _drive_cancel and its Tank(0, 0) has returned, the
\* motors stay at (0, 0) until a later request calls launch_drive.
C6_StopAuthoritative == stopState = "stopped" => Stopped

\* C7: the command_id values of the snapshots the mutating calls return are
\* strictly increasing in the order the calls took stateLock (so pairwise
\* distinct), and command_id never decreases.
C7_RevisionMonotonic ==
    /\ [](\A i, j \in 1..Len(retIds) : i < j => retIds[i] < retIds[j])
    /\ [][robotState'.command_id >= robotState.command_id]_vars

\* C7 witness: two mutating calls have taken their snapshots and a third waits
\* for stateLock while it is held.
C7_Witness ==
    /\ Len(retIds) >= 2
    /\ \E h \in Handlers : hpc[h] = "cs_enter" /\ stateLock # 0

\* C8: every completed stop() or update_controls() has added exactly 1:
\* command_id is the number of mutating calls that have returned, plus the
\* calls that have stored their increment and are still persisting.
C8_NoLostUpdates ==
    robotState.command_id =
        nDone + Cardinality({h \in Handlers : hpc[h] \in {"w_write", "w_replace"}})

\* C8 witness: two mutating calls have returned and a third has incremented.
C8_Witness ==
    /\ nDone >= 2
    /\ \E h \in Handlers : hpc[h] = "w_replace"
    /\ robotState.command_id = 3

\* C9: every snapshot taken by status(), stop() or update_controls() is the
\* whole state as it stood right after the latest complete mutation (or the
\* initial state).
C9_SnapshotAtomic ==
    [][\A h \in Handlers :
         (hsnap'[h] # hsnap[h] /\ hsnap'[h] # NoSnap) => hsnap'[h] = lastCommit']_vars

\* C9 witness: status() holds a snapshot of a mutated state while the state
\* has since moved on.
C9_Witness ==
    \E h \in Handlers : /\ hpc[h] = "st_ret"
                        /\ hsnap[h].command_id >= 1
                        /\ hsnap[h] # robotState

\* C10: the file at STATE_PATH is absent or holds, whole, the snapshot of the
\* latest persist that completed: never a partial file, and a kill before the
\* rename leaves the previous durable snapshot in place.
C10_CrashSafe == diskFile = durable /\ diskFile # Partial

\* C10 witness: the process was killed between the temp-file write and the
\* rename, with an earlier snapshot on disk.
C10_Witness ==
    /\ crashed
    /\ \E h \in Handlers : hpc[h] = "w_replace"
    /\ diskFile # Absent
    /\ tmpFile # diskFile

\* C11: a mutating call whose write_state_to_disk fails still returns its
\* snapshot: a call that has taken its snapshot ends only by returning it, and
\* the failure leaves the mutation in robotState.
C11_SnapshotDespiteFailure ==
    [][\A h \in Handlers :
         (hpc[h] \in {"w_write", "w_replace"} /\ hpc'[h] \notin {"w_write", "w_replace"})
            => (hpc'[h] = "idle" /\ robotState' = robotState)]_vars

\* the table of the command interpreter, by spelling
TableVec(c, sp) ==
    IF c \in {"forward", "FORWARD", "Forward", "start", "START", "move", "Move"}
    THEN <<sp, sp>>
    ELSE IF c \in {"back", "BACK", "backward", "Backward"} THEN <<-sp, -sp>>
    ELSE IF c \in {"left", "LEFT"} THEN <<-sp, sp>>
    ELSE IF c \in {"right", "Right"} THEN <<sp, -sp>>
    ELSE <<0, 0>>

\* C12: the (L, R) pair update_controls computes is the table's vector for the
\* explicit command, whatever its case and whatever the flags, when a command
\* is given; else the vector of the first flag set in the order up, down,
\* left, right; else (0, 0).
C12_CommandInterpretation ==
    \A h \in Handlers :
        hpc[h] = "interpreted" =>
            LET d == hreq[h].data IN
            hreq[h].vec =
                IF d.command # "" THEN TableVec(d.command, d.speed)
                ELSE IF d.up THEN <<d.speed, d.speed>>
                ELSE IF d.down THEN <<-d.speed, -d.speed>>
                ELSE IF d.left THEN <<-d.speed, d.speed>>
                ELSE IF d.right THEN <<d.speed, -d.speed>>
                ELSE <<0, 0>>

\* C12 witness: an upper-case explicit command has won over a set flag that
\* names the opposite direction.
C12_Witness ==
    \E h \in Handlers :
        /\ hpc[h] = "interpreted"
        /\ hreq[h].data.command = "FORWARD" /\ hreq[h].data.down
        /\ hreq[h].vec = <<600, 600>>

\* C13: while a Tank call holds MOTOR._lock, no other thread commands a motor
\* side or takes the lock: the only step that changes the motors is the
\* holder's own right-side command, which releases the lock; and when a Tank
\* call returns, both sides are as that call's vector sets them.
C13_TankAtomic ==
    /\ [][motorLock # 0 =>
             /\ motorLock' \in {motorLock, 0}
             /\ motor' # motor => (motorLock' = 0 /\ motor'.left = motor.left)]_vars
    /\ [][\A h \in Handlers :
             (hpc[h] \in {"tank2", "sd_tank2"} /\ hpc'[h] # hpc[h])
                => Shows(hreq[h].vec)']_vars
    /\ [][\A t \in Tasks :
             /\ (tpc[t] = "tank2" /\ tpc'[t] = "poll") => Shows(targ[t])'
             /\ (tpc[t] = "stop2" /\ tpc'[t] = "done") => Shows(<<0, 0>>)']_vars

\* C13 witness: a drive task is between the two side commands of its
\* Tank(left, right) while the shutdown's Tank(0, 0) waits for the lock.
C13_Witness ==
    \E t \in Tasks, h \in Handlers :
        /\ motorLock = -t /\ tpc[t] = "tank2" /\ targ[t] # <<0, 0>>
        /\ hpc[h] = "sd_tank1"

\* the locks thread h holds
LocksOf(h) ==
    (IF driveLock = h THEN {"_drive_lock"} ELSE {})
        \cup (IF motorLock = h THEN {"MOTOR._lock"} ELSE {})
        \cup (IF stateLock = h THEN {"stateLock"} ELSE {})

\* a handler is inside a request, or a drive thread is running
Busy ==
    \/ \E h \in Handlers : hpc[h] # "idle"
    \/ \E t \in Tasks : tpc[t] \notin {"unborn", "done"}

\* C14: no handler ever holds two locks, or any lock once it has returned;
\* whenever a thread is inside a call or a drive, some thread can step (no
\* deadlock); and every request a handler has begun returns, even if the
\* drive tasks never leave their polling loops.
C14_NeverBlocksOnDrive ==
    /\ [](\A h \in Handlers :
            /\ Cardinality(LocksOf(h)) <= 1
            /\ hpc[h] = "idle" => LocksOf(h) = {})
    /\ [](Busy => ENABLED ((\E h \in Handlers : HandlerStep(h))
                              \/ (\E t \in Tasks : TaskStep(t))))
    /\ \A h \in Handlers : (hpc[h] # "idle") ~> (hpc[h] = "idle")

\* C14 witness: the request that launched a drive has returned, no handler is
\* inside a request, and the drive task is still before its deadline.
C14_Witness ==
    /\ \A h \in Handlers : hpc[h] = "idle"
    /\ nDone >= 1
    /\ \E t \in Tasks : Active(t)

\* C15: a drive task whose first Tank(left, right) fails still ends by its
\* Tank(0, 0): the step that ends a drive thread is the right-side command of
\* that stop, and it leaves both sides stopped.
C15_StopAfterFault ==
    [][\A t \in Tasks :
         (tpc[t] \notin {"done", "died"} /\ tpc'[t] \in {"done", "died"})
            => (tpc[t] = "stop2" /\ Stopped')]_vars

\* a request with a zero vector or a non-positive duration
ImmediateStop(req) ==
    req.kind = "set" /\ (req.vec = <<0, 0>> \/ req.data.duration <= 0)

CommandNames == {"stop", "forward", "back", "left", "right"}

\* C17: robotState.command, and the command of every snapshot a handler
\* holds, is one of the five normalized names.
C17_CommandNormalized ==
    /\ robotState.command \in CommandNames
    /\ \A h \in Handlers : hsnap[h] # NoSnap => hsnap[h].command \in CommandNames

\* C18: whenever stateLock is free and a mutating call has completed, the file
\* at STATE_PATH holds exactly the in-memory robotState, field for field.
C18_DurableMirror == (stateLock = 0 /\ nDone >= 1) => diskFile = robotState

\* C18 witness: two mutations have completed, the lock is free, and the file
\* holds the state of the second one.
C18_Witness ==
    /\ stateLock = 0 /\ nDone >= 2
    /\ diskFile.command_id = 2 /\ robotState.command_id = 2

\* round(a * 100) for a magnitude a in thousandths, clamped to 0..100: the
\* nearest whole percent, and either neighbour when a lies exactly half way
RoundPercent(a) ==
    LET q == (a * 100) \div 1000
        r == (a * 100) % 1000
    IN  IF 2 * r < 1000 THEN {ClampDuty(q)}
        ELSE IF 2 * r > 1000 THEN {ClampDuty(q + 1)}
        ELSE {ClampDuty(q), ClampDuty(q + 1)}

\* the side is as the claim says Tank(.., val, ..) leaves it
SideRounded(side, val) ==
    IF Abs(val) >= 1
    THEN /\ side.duty \in RoundPercent(Abs(val))
         /\ side.dir = "forward" <=> val > 0
    ELSE side.duty = 0

\* C19: once Tank has commanded a side with value val, that side's duty is
\* round(abs(val) * 100) clamped to 0..100 with direction forward iff val > 0
\* when abs(val) >= 0.001, and 0 when abs(val) < 0.001.
C19_DutyRounded ==
    \A t \in Tasks :
        /\ tpc[t] \in {"tank2", "poll"} => SideRounded(motor.left, targ[t][1])
        /\ tpc[t] = "poll" => SideRounded(motor.right, targ[t][2])

\* C20: once two concurrent update_controls requests that each launched a
\* drive have both returned, robotState.command is the command of the request
\* whose drive was launched last: its vector is the last started task's.
C20_StateNamesLastDrive ==
    (/\ \A h \in Handlers : hpc[h] = "idle"
     /\ ntasks = 2 /\ nDone = 2 /\ nCalls = 2)
        => cmd_to_tank(robotState.command, robotState.speed) = targ[ntasks]

====
